---- MODULE Spec2Model ----
(***************************************************************************)
(* Model of the AI Health Companion: the DocumentAnalyzer pipeline         *)
(* (document_analyzer.py) and the Streamlit chat handler (app.py).         *)
(*                                                                         *)
(* Text is a sequence of chunks.  Every whitespace character is a chunk of *)
(* its own; a chunk that is not whitespace stands for a run of             *)
(* non-whitespace characters or for a fixed literal of the source.  PDF    *)
(* page texts are drawn over one-character chunks, so that Len is their    *)
(* character count and the slice text_content[:4000] is exact.             *)
(***************************************************************************)
EXTENDS Integers, Sequences, FiniteSets, TLC

VARIABLES
    messages,         \* st.session_state.messages
    op,               \* the operation that ran last
    turn,             \* inputs of the last chat turn: the typed prompt and the attached file
    gatewayText,      \* raw text the classification call of the last analyzer operation returned
    calls,            \* calls the last operation made to its collaborators, in order
    result,           \* what the last analyzer operation returned, or that it raised
    turnLog,          \* history: the chat turns since the last New Conversation
    lastExplanation,  \* history: explanation of the latest analysis since the last New Conversation
    preReset,         \* history: message contents and explanations that existed at a New Conversation
    turnCount         \* history: the chat turns of the session so far

vars == <<messages, op, turn, gatewayText, calls, result, turnLog, lastExplanation, preReset,
          turnCount>>

----------------------------------------------------------------------------
(* Bounds *)

MaxTurns == 2         \* chat turns modelled per session

----------------------------------------------------------------------------
(* Text helpers *)

\* the whitespace characters str.strip() removes that the modelled texts use
Whitespace == {" ", "\t", "\n", "\r"}

IsPrefix(s, t) == Len(s) <= Len(t) /\ SubSeq(t, 1, Len(s)) = s

Contains(t, s) ==
    \E i \in 0..(Len(t) - Len(s)) : SubSeq(t, i + 1, i + Len(s)) = s

Rep(c, n) == [i \in 1..n |-> c]

\* a wrong trim that removes only the leading whitespace
lstrip_only(s) ==
    LET keep == {i \in 1..Len(s) : s[i] \notin Whitespace}
    IN  IF keep = {} THEN <<>>
        ELSE SubSeq(s, CHOOSE i \in keep : \A j \in keep : i <= j, Len(s))

\* str.strip(): drop the leading and the trailing whitespace characters
strip(s) ==
    LET keep == {i \in 1..Len(s) : s[i] \notin Whitespace}
    IN  IF keep = {} THEN <<>>
        ELSE SubSeq(s, CHOOSE i \in keep : \A j \in keep : i <= j,
                       CHOOSE i \in keep : \A j \in keep : i >= j)

----------------------------------------------------------------------------
(* document_analyzer.py *)

\* config.DOCUMENT_CATEGORIES: the canonical category tokens
DOCUMENT_CATEGORIES ==
    [PRESCRIPTION  |-> <<"PRESCRIPTION">>,
     LAB_REPORT    |-> <<"LAB_REPORT">>,
     MEDICAL_IMAGE |-> <<"MEDICAL_IMAGE">>,
     UNKNOWN       |-> <<"UNKNOWN">>]

Values(d) == {d[k] : k \in DOMAIN d}

\* the literal 'unknown' of categorize_document's fallback
unknown == <<"unknown">>

\* the fixed explanation of analyze_document's else branch
FALLBACK ==
    <<"I couldn't clearly identify this document type.", " ",
      "Please upload a clear image of a prescription, lab report, or medical scan.">>

\* categorize_document, given the text invoke_with_image returned
categorize_document(rawText) ==
    LET category == strip(rawText)
    IN  [category         |-> IF category \in Values(DOCUMENT_CATEGORIES)
                              THEN category ELSE unknown,
         category_display |-> category]

\* a wrong dispatch that sends the fallback category to the prescription template
ExplainMethod_unknown_explained(category) ==
    IF category = <<"prescription">> \/ category = unknown THEN "explain_prescription"
    ELSE IF category = <<"lab_report">> THEN "explain_lab_report"
    ELSE IF category = <<"medical_image">> THEN "explain_medical_image"
    ELSE "none"

\* the if/elif chain of analyze_document: the explain method a category selects
ExplainMethod(category) ==
    IF category = <<"prescription">> THEN "explain_prescription"
    ELSE IF category = <<"lab_report">> THEN "explain_lab_report"
    ELSE IF category = <<"medical_image">> THEN "explain_medical_image"
    ELSE "none"

\* what bedrock.invoke_with_image or chat_handler.get_response does: return a text, or raise
Returned(text) == [ok |-> TRUE, text |-> text]
GatewayError == [ok |-> FALSE, text |-> <<>>]

Call(fn, method, user_message, outcome) ==
    [fn |-> fn, method |-> method, user_message |-> user_message,
     raised |-> ~outcome.ok, text |-> outcome.text]

NoResult == [status |-> "none"]
Raised == [raised |-> "GatewayError"]

\* a wrong analyze_document that swallows a failed classification and returns a partial result
analyze_document_partial(classification, explanation) ==
    IF ~classification.ok
    THEN [calls  |-> <<Call("invoke_with_image", "categorize_document", <<>>, classification)>>,
          result |-> [category |-> unknown, category_display |-> <<>>]]
    ELSE LET categorization == categorize_document(classification.text)
             first == Call("invoke_with_image", "categorize_document", <<>>, classification)
         IN  [calls  |-> <<first>>,
              result |-> [category         |-> categorization.category,
                          category_display |-> categorization.category_display,
                          explanation      |-> FALLBACK]]

\* analyze_document, given what the two invoke_with_image calls do when they are made
analyze_document(classification, explanation) ==
    LET first == Call("invoke_with_image", "categorize_document", <<>>, classification)
    IN  IF ~classification.ok
        THEN [calls |-> <<first>>, result |-> Raised]
        ELSE LET categorization == categorize_document(classification.text)
                 category == categorization.category
                 method == ExplainMethod(category)
                 second == Call("invoke_with_image", method, <<>>, explanation)
             IN  IF method = "none"
                 THEN [calls  |-> <<first>>,
                       result |-> [category         |-> category,
                                   category_display |-> categorization.category_display,
                                   explanation      |-> FALLBACK]]
                 ELSE IF ~explanation.ok
                 THEN [calls |-> <<first, second>>, result |-> Raised]
                 ELSE [calls  |-> <<first, second>>,
                       result |-> [category         |-> category,
                                   category_display |-> categorization.category_display,
                                   explanation      |-> explanation.text]]

----------------------------------------------------------------------------
(* app.py *)

\* the slice bound of text_content[:4000]
PDF_TEXT_LIMIT == 4000

Min(a, b) == IF a <= b THEN a ELSE b

\* s[:n]
Slice(s, n) == SubSeq(s, 1, Min(n, Len(s)))

\* the loop over pdf_reader.pages: text_content += page.extract_text() + "\n"
RECURSIVE text_content(_)
text_content(pages) ==
    IF pages = <<>> THEN <<>>
    ELSE text_content(SubSeq(pages, 1, Len(pages) - 1)) \o pages[Len(pages)] \o <<"\n">>

\* a wrong PDF prompt that sends the whole extracted text
pdf_user_message_untruncated(prompt, pages) ==
    prompt \o <<"\n", "\n", "Document content:", "\n">> \o text_content(pages)

\* f"{prompt}\n\nDocument content:\n{text_content[:4000]}"
pdf_user_message(prompt, pages) ==
    prompt \o <<"\n", "\n", "Document content:", "\n">>
           \o Slice(text_content(pages), PDF_TEXT_LIMIT)

\* str(i) for the table numbers
Str(i) == <<"1", "2", "3", "4", "5", "6", "7", "8", "9">>[i]

\* the loop over enumerate(extracted['tables'], 1): context += f"Table {i}: {table}\n"
RECURSIVE table_lines(_)
table_lines(tables) ==
    IF tables = <<>> THEN <<>>
    ELSE table_lines(SubSeq(tables, 1, Len(tables) - 1))
         \o <<"Table", " ", Str(Len(tables)), ":", " ">> \o tables[Len(tables)] \o <<"\n">>

\* the context built from the Textract result
context(extracted) ==
    <<"Extracted text:", " ">> \o extracted.raw_text \o <<"\n", "\n">>
    \o (IF extracted.tables # <<>>
        THEN <<"Tables found:", "\n">> \o table_lines(extracted.tables)
        ELSE <<>>)

\* a wrong image prompt that merges the explanation of the latest analysis into the prompt
image_user_message_merged(prompt, extracted) ==
    prompt \o <<"\n", "\n">> \o context(extracted) \o lastExplanation

\* f"{prompt}\n\n{context}"
image_user_message(prompt, extracted) ==
    prompt \o <<"\n", "\n">> \o context(extracted)

\* the no-attachment branch passes the typed prompt as it is
plain_user_message(prompt) == prompt

\* f"[paperclip] **Attached:** {chat_uploaded_file.name}\n\n{prompt}"
attached_user_message(name, prompt) ==
    <<"U+1F4CE", " ", "**Attached:**", " ">> \o name \o <<"\n", "\n">> \o prompt

\* a wrong handler that records the assistant entry before the user entry
record_turn_swapped(msgs, user_message, reply) ==
    IF reply.ok
    THEN msgs \o <<[role |-> "assistant", content |-> reply.text],
                   [role |-> "user", content |-> user_message]>>
    ELSE Append(msgs, [role |-> "user", content |-> user_message])

\* a wrong handler that catches the failure and records an empty assistant entry
record_turn_empty_reply(msgs, user_message, reply) ==
    msgs \o <<[role |-> "user", content |-> user_message],
              [role |-> "assistant", content |-> reply.text]>>

\* the two appends of a chat turn: the user entry, then, unless the processing between
\* them raised, the assistant entry
record_turn(msgs, user_message, reply) ==
    IF reply.ok
    THEN msgs \o <<[role |-> "user", content |-> user_message],
                   [role |-> "assistant", content |-> reply.text]>>
    ELSE Append(msgs, [role |-> "user", content |-> user_message])

\* a wrong New Conversation that keeps the recorded messages
new_conversation_keeps(msgs) == msgs

\* st.session_state.messages = []
new_conversation(msgs) == <<>>

----------------------------------------------------------------------------
(* Texts the Model Gateway is taken to return *)

Cores ==
    {<<"PRESCRIPTION">>, <<"LAB_REPORT">>, <<"MEDICAL_IMAGE">>, <<"UNKNOWN">>,
     <<"prescription">>, <<"lab_report">>, <<"XRAY">>, <<>>,
     <<"probably", " ", "a", " ", "prescription">>,
     <<"PRESCRIPTION", "\n", "LAB_REPORT">>}

LeftPads == {<<>>, <<" ">>, <<"\n", "\t">>}
RightPads == {<<>>, <<" ", "\n">>}

ClassifierTexts == {l \o c \o r : l \in LeftPads, c \in Cores, r \in RightPads}
ExplanationTexts == {<<"E1">>, <<"E2">>}

ClassifierOutcomes == {Returned(t) : t \in ClassifierTexts} \cup {GatewayError}
SessionClassifierOutcomes ==
    {Returned(<<" ", "PRESCRIPTION", " ", "\n">>),
     Returned(<<"probably", " ", "a", " ", "prescription">>),
     GatewayError}
ExplanationOutcomes == {Returned(t) : t \in ExplanationTexts} \cup {GatewayError}

ChatTexts == {<<"R1">>}
ChatOutcomes == {Returned(t) : t \in ChatTexts} \cup {GatewayError}

----------------------------------------------------------------------------
(* Inputs of the chat handler *)

UserPrompts == {<<"hi">>, <<"Is", " ", "anything", " ", "abnormal?">>}

\* what PdfReader yields for the uploaded PDF: its page texts, in page order
PdfDocs ==
    {<<>>,
     <<<<"a", "b">>, <<"c">>>>,
     <<Rep("a", PDF_TEXT_LIMIT - 1)>>,
     <<Rep("a", PDF_TEXT_LIMIT)>>,
     <<Rep("a", PDF_TEXT_LIMIT - 2), <<"b", "c">>>>}

\* what TextractExtractor.extract_structured_data yields for the uploaded image
Extractions ==
    {[raw_text |-> <<"x", " ", "y">>, tables |-> <<>>],
     [raw_text |-> <<"x">>, tables |-> <<<<"T1">>, <<"T2">>>>],
     [raw_text |-> <<>>, tables |-> <<<<"T1">>>>]}

PdfFile == [type |-> "application/pdf", name |-> <<"report.pdf">>]
ImageFile == [type |-> "image/png", name |-> <<"scan.png">>]
Files == {PdfFile, ImageFile}

NoFile == [type |-> "", name |-> <<>>]
NoPages == <<>>
NoExtraction == [raw_text |-> <<>>, tables |-> <<>>]

EmptyTurn ==
    [kind |-> "none", prompt |-> <<>>, file |-> NoFile, read |-> FALSE,
     pages |-> NoPages, extracted |-> NoExtraction]

----------------------------------------------------------------------------
(* Operations of DocumentAnalyzer *)

Categorize ==
    \E c \in ClassifierOutcomes :
        /\ op' = "categorize_document"
        /\ gatewayText' = c.text
        /\ calls' = <<Call("invoke_with_image", "categorize_document", <<>>, c)>>
        /\ result' = IF c.ok THEN categorize_document(c.text) ELSE Raised
        /\ turn' = EmptyTurn
        /\ UNCHANGED <<messages, turnLog, lastExplanation, preReset, turnCount>>

Explain ==
    \E m \in {"explain_prescription", "explain_lab_report", "explain_medical_image"},
       e \in ExplanationOutcomes :
        /\ op' = m
        /\ gatewayText' = <<>>
        /\ calls' = <<Call("invoke_with_image", m, <<>>, e)>>
        /\ result' = IF e.ok THEN [explanation |-> e.text] ELSE Raised
        /\ turn' = EmptyTurn
        /\ UNCHANGED <<messages, turnLog, lastExplanation, preReset, turnCount>>

\* analyze_document, the classification call answering from the given outcomes
AnalyzeFrom(outcomes) ==
    \E c \in outcomes, e \in ExplanationOutcomes :
        LET run == analyze_document(c, e)
        IN  \* what the explain call would do matters only when that call is made
            /\ Len(run.calls) = 1 => e = GatewayError
            /\ op' = "analyze_document"
            /\ gatewayText' = c.text
            /\ calls' = run.calls
            /\ result' = run.result
            /\ lastExplanation' = IF "explanation" \in DOMAIN run.result
                                  THEN run.result.explanation ELSE lastExplanation
            /\ turn' = EmptyTurn
            /\ UNCHANGED <<messages, turnLog, preReset, turnCount>>

Analyze == AnalyzeFrom(ClassifierOutcomes)

\* an analysis run from the chat page's session
AnalyzeInSession == AnalyzeFrom(SessionClassifierOutcomes)

Init ==
    /\ messages = <<>>
    /\ op = "start"
    /\ turn = EmptyTurn
    /\ gatewayText = <<>>
    /\ calls = <<>>
    /\ result = NoResult
    /\ turnLog = <<>>
    /\ lastExplanation = <<>>
    /\ preReset = {}
    /\ turnCount = 0

----------------------------------------------------------------------------
(* Operations of the chat page *)

LogEntry(prompt, file, reply) ==
    [prompt |-> prompt, attached |-> file # NoFile, name |-> file.name, reply |-> reply]

\* a chat turn with a PDF attached; read says whether PdfReader decoded the file
ChatWithPdf ==
    \E prompt \in UserPrompts, file \in Files, read \in BOOLEAN,
       pages \in PdfDocs, reply \in ChatOutcomes :
        LET user_message == attached_user_message(file.name, prompt)
            sent == pdf_user_message(prompt, pages)
            outcome == IF read THEN reply ELSE GatewayError
        IN  /\ turnCount < MaxTurns
            /\ file.type = "application/pdf"
            /\ read \/ (pages = NoPages /\ ~reply.ok)
            /\ op' = "chat_pdf"
            /\ turn' = [kind |-> "pdf", prompt |-> prompt, file |-> file, read |-> read,
                        pages |-> pages, extracted |-> NoExtraction]
            /\ calls' = IF read THEN <<Call("get_response", "chat", sent, reply)>> ELSE <<>>
            /\ messages' = record_turn(messages, user_message, outcome)
            /\ turnLog' = Append(turnLog, LogEntry(prompt, file, outcome))
            /\ gatewayText' = <<>>
            /\ result' = NoResult
            /\ turnCount' = turnCount + 1
            /\ UNCHANGED <<lastExplanation, preReset>>

\* a chat turn with an image attached; read says whether Textract extracted the image
ChatWithImage ==
    \E prompt \in UserPrompts, file \in Files, read \in BOOLEAN,
       extracted \in Extractions \cup {NoExtraction}, reply \in ChatOutcomes :
        LET user_message == attached_user_message(file.name, prompt)
            sent == image_user_message(prompt, extracted)
            outcome == IF read THEN reply ELSE GatewayError
        IN  /\ turnCount < MaxTurns
            /\ file.type # "application/pdf"
            /\ IF read THEN extracted \in Extractions
                       ELSE extracted = NoExtraction /\ ~reply.ok
            /\ op' = "chat_image"
            /\ turn' = [kind |-> "image", prompt |-> prompt, file |-> file, read |-> read,
                        pages |-> NoPages, extracted |-> extracted]
            /\ calls' = IF read THEN <<Call("get_response", "chat", sent, reply)>> ELSE <<>>
            /\ messages' = record_turn(messages, user_message, outcome)
            /\ turnLog' = Append(turnLog, LogEntry(prompt, file, outcome))
            /\ gatewayText' = <<>>
            /\ result' = NoResult
            /\ turnCount' = turnCount + 1
            /\ UNCHANGED <<lastExplanation, preReset>>

\* a chat turn with no file attached
ChatPlain ==
    \E prompt \in UserPrompts, reply \in ChatOutcomes :
        LET sent == plain_user_message(prompt)
        IN  /\ turnCount < MaxTurns
            /\ op' = "chat_plain"
            /\ turn' = [kind |-> "plain", prompt |-> prompt, file |-> NoFile, read |-> FALSE,
                        pages |-> NoPages, extracted |-> NoExtraction]
            /\ calls' = <<Call("get_response", "chat", sent, reply)>>
            /\ messages' = record_turn(messages, prompt, reply)
            /\ turnLog' = Append(turnLog, LogEntry(prompt, NoFile, reply))
            /\ gatewayText' = <<>>
            /\ result' = NoResult
            /\ turnCount' = turnCount + 1
            /\ UNCHANGED <<lastExplanation, preReset>>

\* the New Conversation button
NewConversation ==
    /\ op' = "new_conversation"
    /\ messages' = new_conversation(messages)
    /\ turn' = EmptyTurn
    /\ calls' = <<>>
    /\ gatewayText' = <<>>
    /\ result' = NoResult
    /\ turnLog' = <<>>
    /\ lastExplanation' = <<>>
    /\ preReset' = (preReset \cup {messages[i].content : i \in 1..Len(messages)}
                             \cup {lastExplanation}) \ {<<>>}
    /\ UNCHANGED turnCount

Next == AnalyzeInSession \/ ChatPlain \/ ChatWithPdf \/ ChatWithImage \/ NewConversation

Spec == Init /\ [][Next]_vars

NextAnalyzer == Categorize \/ Explain \/ Analyze

SpecAnalyzer == Init /\ [][NextAnalyzer]_vars

----------------------------------------------------------------------------
(* Vocabulary of the properties *)

KnownTokens == {<<"PRESCRIPTION">>, <<"LAB_REPORT">>, <<"MEDICAL_IMAGE">>}

\* the category UNKNOWN: the token itself, or the literal the classifier falls back to
IsUnknown(category) == category \in {<<"UNKNOWN">>, <<"unknown">>}

\* t is raw without its surrounding whitespace
IsTrimOf(t, raw) ==
    \E i \in 0..Len(raw), j \in 0..Len(raw) :
        /\ i + Len(t) + j = Len(raw)
        /\ SubSeq(raw, i + 1, i + Len(t)) = t
        /\ \A k \in 1..i : raw[k] \in Whitespace
        /\ \A k \in (Len(raw) - j + 1)..Len(raw) : raw[k] \in Whitespace
        /\ t # <<>> => (t[1] \notin Whitespace /\ t[Len(t)] \notin Whitespace)

TemplateOf(token) ==
    IF token = <<"PRESCRIPTION">> THEN "explain_prescription"
    ELSE IF token = <<"LAB_REPORT">> THEN "explain_lab_report"
    ELSE "explain_medical_image"

Returns == "raised" \notin DOMAIN result

ChatOps == {"chat_plain", "chat_pdf", "chat_image"}

\* the page texts one after the other, each followed by a newline
RECURSIVE PageChars(_)
PageChars(pages) ==
    IF pages = <<>> THEN <<>> ELSE pages[1] \o <<"\n">> \o PageChars(Tail(pages))

\* the first n characters of s
Take(s, n) == [i \in 1..(IF Len(s) < n THEN Len(s) ELSE n) |-> s[i]]

\* what messages holds after the logged turns
RECURSIVE Recorded(_)
Recorded(log) ==
    IF log = <<>> THEN <<>>
    ELSE LET t == log[Len(log)]
             shown == IF t.attached
                      THEN <<"U+1F4CE", " ", "**Attached:**", " ">> \o t.name
                           \o <<"\n", "\n">> \o t.prompt
                      ELSE t.prompt
         IN  Recorded(SubSeq(log, 1, Len(log) - 1))
             \o <<[role |-> "user", content |-> shown]>>
             \o (IF t.reply.ok THEN <<[role |-> "assistant", content |-> t.reply.text]>>
                 ELSE <<>>)

----------------------------------------------------------------------------
(* Properties *)

\* C1, as stated: a classifier text that trims to one of the three known tokens yields that
\* category, displayed as the trimmed text; any other text yields UNKNOWN and is displayed
\* unchanged, as the raw text.
C1_DisplayKeepsRawText ==
    (op = "categorize_document" /\ Returns) =>
        IF \E k \in KnownTokens : IsTrimOf(k, gatewayText)
        THEN /\ result.category \in KnownTokens
             /\ IsTrimOf(result.category, gatewayText)
             /\ result.category_display = result.category
        ELSE /\ IsUnknown(result.category)
             /\ result.category_display = gatewayText

\* C1, amended: a classifier text that trims to one of the three known tokens yields that
\* category, displayed as the trimmed text; any other text yields UNKNOWN and is displayed
\* trimmed of its surrounding whitespace.
C1_ClassifyByTrimmedToken ==
    (op = "categorize_document" /\ Returns) =>
        IF \E k \in KnownTokens : IsTrimOf(k, gatewayText)
        THEN /\ result.category \in KnownTokens
             /\ IsTrimOf(result.category, gatewayText)
             /\ result.category_display = result.category
        ELSE /\ IsUnknown(result.category)
             /\ IsTrimOf(result.category_display, gatewayText)

C1_Witness ==
    /\ op = "categorize_document"
    /\ gatewayText = <<" ">> \o <<"probably", " ", "a", " ", "prescription">> \o <<" ", "\n">>
    /\ Returns
    /\ result.category = <<"unknown">>
    /\ result.category_display = <<"probably", " ", "a", " ", "prescription">>

\* C2: analyze is classify then explain: one classification call first, then the explain
\* call of the template that belongs to the classified category, whose text is returned
\* with the category and its display.
C2_AnalyzeComposes ==
    (op = "analyze_document" /\ Returns) =>
        /\ calls # <<>>
        /\ calls[1].method = "categorize_document"
        /\ Cardinality({i \in 1..Len(calls) : calls[i].method = "categorize_document"}) = 1
        /\ \A k \in KnownTokens :
              IsTrimOf(k, gatewayText) =>
                  /\ result.category = k
                  /\ result.category_display = k
                  /\ Len(calls) = 2
                  /\ calls[2].method = TemplateOf(k)
                  /\ result.explanation = calls[2].text

\* C3: an analysis whose category is UNKNOWN makes the classification call and no other,
\* and its explanation is the fixed fallback text.
C3_UnknownMakesNoExplainCall ==
    (op = "analyze_document" /\ Returns /\ IsUnknown(result.category)) =>
        /\ Len(calls) = 1
        /\ calls[1].method = "categorize_document"
        /\ result.explanation = FALLBACK

C3_Witness ==
    /\ op = "analyze_document"
    /\ gatewayText = <<"probably", " ", "a", " ", "prescription">>
    /\ Returns
    /\ result.category = <<"unknown">>
    /\ Len(calls) = 1

C5_MessagesInTurnOrder ==
    /\ [](messages = Recorded(turnLog))
    /\ [][op' = "new_conversation" \/ IsPrefix(messages, messages')]_vars

C5_Witness ==
    /\ Len(messages) = 4
    /\ turnLog[1].attached
    /\ ~turnLog[2].attached
    /\ messages[1].role = "user" /\ messages[2].role = "assistant"
    /\ messages[3].role = "user" /\ messages[4].role = "assistant"

\* C6: a chat turn whose Gateway call fails appends the user entry and nothing else.
C6_FailedTurnRecordsNoReply ==
    [][(op' \in ChatOps /\ calls' # <<>> /\ calls'[1].raised) =>
          /\ Len(messages') = Len(messages) + 1
          /\ IsPrefix(messages, messages')
          /\ messages'[Len(messages')].role = "user"]_vars

C6_Witness ==
    /\ op \in {"chat_pdf", "chat_image"}
    /\ calls # <<>>
    /\ calls[1].raised
    /\ Len(messages) = 3
    /\ messages[3].role = "user"

\* C7: after an analysis has produced an explanation, and until New Conversation, the
\* prompt a plain chat turn sends contains that explanation.
C7_PlainTurnCarriesExplanation ==
    (op = "chat_plain" /\ ~calls[1].raised /\ lastExplanation # <<>>) =>
        Contains(calls[1].user_message, lastExplanation)

\* C8: a chat turn with an attachment, made while an explanation is carried, sends the
\* typed prompt followed by the attachment's content, and nothing of the explanation.
C8_AttachmentWins ==
    (op \in {"chat_pdf", "chat_image"} /\ calls # <<>> /\ lastExplanation # <<>>) =>
        /\ ~Contains(calls[1].user_message, lastExplanation)
        /\ IsPrefix(turn.prompt, calls[1].user_message)
        /\ op = "chat_image" =>
              /\ Contains(calls[1].user_message, turn.extracted.raw_text)
              /\ \A i \in 1..Len(turn.extracted.tables) :
                    Contains(calls[1].user_message, turn.extracted.tables[i])
        /\ op = "chat_pdf" =>
              Contains(calls[1].user_message, Take(PageChars(turn.pages), PDF_TEXT_LIMIT))

C8_Witness ==
    /\ op = "chat_image"
    /\ lastExplanation = FALLBACK
    /\ calls # <<>>
    /\ turn.extracted.tables # <<>>

\* C9: New Conversation empties messages, and a prompt sent afterwards contains no message
\* content and no explanation from before it, unless the user typed that text again.
C9_ResetForgets ==
    /\ op = "new_conversation" => messages = <<>>
    /\ (op \in ChatOps /\ calls # <<>>) =>
           \A t \in preReset :
               Contains(calls[1].user_message, t) => Contains(turn.prompt, t)

C9_Witness ==
    /\ op = "chat_plain"
    /\ FALLBACK \in preReset
    /\ <<"R1">> \in preReset
    /\ <<"hi">> \in preReset
    /\ turn.prompt # <<"hi">>
    /\ Len(messages) = 2

\* C10: a chat turn with a decoded PDF makes one call, to get_response, with the typed
\* prompt and the page texts concatenated in page order and cut to the character budget;
\* it makes no classification and no explain call.
C10_PdfBypassesPipeline ==
    op = "chat_pdf" =>
        /\ \A i \in 1..Len(calls) : calls[i].fn # "invoke_with_image"
        /\ turn.read =>
              /\ Len(calls) = 1
              /\ calls[1].fn = "get_response"
              /\ calls[1].user_message =
                     turn.prompt \o <<"\n", "\n", "Document content:", "\n">>
                                 \o Take(PageChars(turn.pages), PDF_TEXT_LIMIT)

C10_Witness ==
    /\ op = "chat_pdf"
    /\ turn.read
    /\ Len(turn.pages) = 2
    /\ Len(PageChars(turn.pages)) > PDF_TEXT_LIMIT
    /\ Len(calls) = 1
    /\ ~calls[1].raised

====
